---- MODULE Spec2Model ----
(***************************************************************************)
(* CrosswordCreator (generate.py): a crossword as a constraint             *)
(* satisfaction problem.  solve() runs node consistency, AC-3 and a        *)
(* recursive backtracking search over the slot variables of a grid.        *)
(*                                                                         *)
(* Words are sequences of letters; Python's 0-based index k is k + 1 here. *)
(***************************************************************************)
EXTENDS Integers, Sequences, FiniteSets

\* ------------------------------------------------------------------ inputs

\* The largest vocabulary the model enumerates.
MaxVocab == 4

\* The most direct calls of the solver's methods one run makes.
MaxCalls == 3

\* The longest explicit list of arcs handed to ac3.
MaxArcs == 1

\* The words a vocabulary file is drawn from: two- and three-letter words
\* over the letters A, B and C.
WordPool ==
  { <<"A", "A">>, <<"A", "B">>, <<"B", "A">>, <<"A", "C">>, <<"C", "A">>,
    <<"A", "B", "A">>, <<"B", "A", "B">> }

\* The vocabularies: every set of at most MaxVocab words of the pool.
Vocabularies == { W \in SUBSET WordPool : Cardinality(W) <= MaxVocab }

\* The vocabularies of a file that also lists a one-letter word.
ShortWordVocabularies ==
  { W \in SUBSET (WordPool \cup { <<"A">> }) : Cardinality(W) <= MaxVocab }

\* The grids, each as the set of its open cells <<row, column>>:
\* one slot of three cells; an across slot of three crossing a down slot of
\* two at their first cells; two parallel slots that do not touch; a chain
\* of three slots; a block of two by two cells (four slots in a cycle).
Structures ==
  { { <<0, 0>>, <<0, 1>>, <<0, 2>> },
    { <<0, 0>>, <<0, 1>>, <<0, 2>>, <<1, 0>> },
    { <<0, 0>>, <<0, 1>>, <<2, 0>>, <<2, 1>> },
    { <<0, 0>>, <<0, 1>>, <<1, 1>>, <<1, 2>> },
    { <<0, 0>>, <<0, 1>>, <<1, 0>>, <<1, 1>> } }

\* ------------------------------------------------------- structural model

ACROSS == "across"
DOWN == "down"

\* Python's None, as the value of Crossword.overlaps[x, y].
None == <<>>

\* The number of open cells in a row from cell <<i, j>> in direction d.
RunLength(S, i, j, d) ==
  LET At(k) == IF d = DOWN THEN <<i + k, j>> ELSE <<i, j + k>>
  IN  Cardinality({ k \in 0..Cardinality(S) : \A m \in 0..k : At(m) \in S })

\* Crossword.variables: a slot starts at an open cell with no open cell
\* before it, and has more than one cell.
VariablesOf(S) ==
  LET Before(c, d) == IF d = DOWN THEN <<c[1] - 1, c[2]>>
                                  ELSE <<c[1], c[2] - 1>>
      Slots == { p \in S \X {ACROSS, DOWN} :
                   /\ Before(p[1], p[2]) \notin S
                   /\ RunLength(S, p[1][1], p[1][2], p[2]) > 1 }
  IN  { [i |-> p[1][1], j |-> p[1][2], direction |-> p[2],
         length |-> RunLength(S, p[1][1], p[1][2], p[2])] : p \in Slots }

\* Variable.cells, as a sequence.
CellsOf(v) ==
  [ k \in 1..v.length |->
      IF v.direction = DOWN THEN <<v.i + (k - 1), v.j>>
                            ELSE <<v.i, v.j + (k - 1)>> ]

\* Crossword.overlaps[x, y]: None, or the 0-based offsets of the shared cell.
Overlap(x, y) ==
  LET Shared == { p \in (1..x.length) \X (1..y.length) :
                    CellsOf(x)[p[1]] = CellsOf(y)[p[2]] }
  IN  IF Shared = {} THEN None
      ELSE LET p == CHOOSE q \in Shared : TRUE IN <<p[1] - 1, p[2] - 1>>

\* Crossword(structure, words): the structural model handed to the solver.
\* overlaps has a key for every ordered pair of distinct variables (revise
\* reads overlaps[x, y] for pairs that do not overlap and finds None).
Crossword(S, W) ==
  [ structure |-> S,
    words     |-> W,
    variables |-> VariablesOf(S),
    overlaps  |-> [ p \in { q \in VariablesOf(S) \X VariablesOf(S) : q[1] # q[2] }
                      |-> Overlap(p[1], p[2]) ] ]

\* Crossword.neighbors(v): the variables that overlap v.
Neighbors(cw, v) ==
  { u \in cw.variables \ {v} : cw.overlaps[<<u, v>>] # None }

\* ------------------------------------------------------------------ state

VARIABLES
  crossword,    \* self.crossword
  domains,      \* self.domains: variable -> set of words
  pc,           \* the statement the solver is at
  arcs,         \* ac3's worklist, a list of pairs <<x, y>>
  ac3_result,   \* what the last ac3() returned: "None" before any return
  assignment,   \* the dict the search binds and unbinds
  stack,        \* the frames of backtrack(): [var, values], innermost last
  result,       \* what backtrack() last returned: "None" or "assignment"
  solve_result, \* what solve() returned: "unset", "None" or "assignment"
  caller,       \* who called ac3: "solve", or "api" for a direct call
  calls,        \* the number of direct calls of the methods made so far
  before,       \* the direct call last begun: the method, and whether the
                \* store was then already consistent
  returned      \* the direct call of revise or order_domain_values that has
                \* just returned: its arguments and its return value

vars == <<crossword, domains, pc, arcs, ac3_result, assignment, stack,
          result, solve_result, caller, calls, before, returned>>

\* The empty dict.
EmptyDict == [ v \in {} |-> <<>> ]

\* All orders in which a finite set can be iterated.
Orders(S) ==
  { f \in [1..Cardinality(S) -> S] : \A a, b \in DOMAIN f : a # b => f[a] # f[b] }

\* CrosswordCreator(crossword): every domain is a copy of the vocabulary.
NoCall == [ call |-> "none" ]

ConstructFrom(vocabularies) ==
  /\ \E S \in Structures, W \in vocabularies :
       /\ crossword = Crossword(S, W)
       /\ domains = [ v \in VariablesOf(S) |-> W ]
  /\ arcs = <<>>
  /\ ac3_result = "None"
  /\ assignment = EmptyDict
  /\ stack = <<>>
  /\ result = "None"
  /\ solve_result = "unset"
  /\ caller = "solve"
  /\ calls = 0
  /\ before = [ call |-> "none", all |-> FALSE, consistent |-> FALSE,
                node_run |-> FALSE ]
  /\ returned = NoCall

Construct == ConstructFrom(Vocabularies)

\* main(): the creator is constructed and solve() is called.
Init == Construct /\ pc = "solve"

\* A caller that holds the creator and calls its methods one by one.
InitApi == Construct /\ pc = "idle"

\* The same caller, with a vocabulary that can hold a one-letter word.
InitValues == ConstructFrom(ShortWordVocabularies) /\ pc = "idle"

\* ------------------------------------------------------ consistency engine

\* A filter that drops only the words that are too short.
NodeConsistentShorter(D) ==
  [ v \in DOMAIN D |-> { word \in D[v] : Len(word) >= v.length } ]

\* enforce_node_consistency: every word of the wrong length leaves its domain.
NodeConsistent(D) ==
  [ v \in DOMAIN D |-> { word \in D[v] : Len(word) = v.length } ]

enforce_node_consistency ==
  /\ pc = "solve"
  /\ domains' = NodeConsistent(domains)
  /\ pc' = "ac3"
  /\ UNCHANGED <<crossword, returned, arcs, ac3_result, assignment, stack, result,
                 solve_result, caller, calls, before>>

\* A revise that removes a word as soon as one word of y disagrees with it.
RemovedXWordsAny(cw, D, x, y) ==
  LET overlap == cw.overlaps[<<x, y>>]
  IN  IF overlap = None THEN {}
      ELSE { x_word \in D[x] :
               \E y_word \in D[y] \ {x_word} :
                 x_word[overlap[1] + 1] # y_word[overlap[2] + 1] }

\* A revise that lets a word of both domains be its own partner.
RemovedXWordsSelf(cw, D, x, y) ==
  LET overlap == cw.overlaps[<<x, y>>]
  IN  IF overlap = None THEN {}
      ELSE { x_word \in D[x] :
               \A y_word \in D[y] :
                 x_word[overlap[1] + 1] # y_word[overlap[2] + 1] }

\* revise(x, y): the words revise removes from domains[x].
RemovedXWords(cw, D, x, y) ==
  LET overlap == cw.overlaps[<<x, y>>]
  IN  IF overlap = None THEN {}
      ELSE { x_word \in D[x] :
               \A y_word \in D[y] \ {x_word} :
                 x_word[overlap[1] + 1] # y_word[overlap[2] + 1] }

\* A revise that writes y's words, less the removed ones, into x's domain.
ReviseFromY(cw, D, x, y) ==
  [ D EXCEPT ![x] = D[y] \ RemovedXWords(cw, D, x, y) ]

\* revise(x, y): the domains it leaves.
Revise(cw, D, x, y) ==
  [ D EXCEPT ![x] = D[x] \ RemovedXWords(cw, D, x, y) ]

\* A revise that reports a revision whatever it removed.
RevisedAlways(cw, D, x, y) == TRUE

\* revise(x, y): its return value.
Revised(cw, D, x, y) == RemovedXWords(cw, D, x, y) # {}

\* list(self.crossword.overlaps.keys()): the keys in insertion order, which
\* is the order of two nested iterations of the set of variables.
OverlapKeys(cw) ==
  { [ k \in 1..(Cardinality(cw.variables) * (Cardinality(cw.variables) - 1)) |->
        LET n == Cardinality(cw.variables)
            a == (k - 1) \div (n - 1)
            r == (k - 1) % (n - 1)
            b == IF r < a THEN r ELSE r + 1
        IN  <<order[a + 1], order[b + 1]>> ] : order \in Orders(cw.variables) }

\* Where ac3 returns to: line 95 of solve(), or the direct caller.
Ac3ReturnsTo(c) == IF c = "solve" THEN "backtrack" ELSE "idle"

\* ac3(): arcs is None, so the worklist starts as every key of overlaps.
ac3_begin ==
  /\ pc = "ac3"
  /\ \E keys \in OverlapKeys(crossword) : arcs' = keys
  /\ pc' = "ac3_while"
  /\ UNCHANGED <<crossword, returned, domains, ac3_result, assignment, stack, result,
                 solve_result, caller, calls, before>>

\* An ac3 that appends no arc after a revision.
x_neighbours_none(cw, x, y) == {}

\* ac3, line 166: the neighbours of x whose arcs (n, x) are appended.
x_neighbours(cw, x, y) == Neighbors(cw, x) \ {y}

\* One turn of `while arcs`: pop the last arc, revise, and either return
\* False on an empty domain or append the arcs (n, x) of x's other neighbours.
ac3_while ==
  /\ pc = "ac3_while"
  /\ arcs # <<>>
  /\ LET x == arcs[Len(arcs)][1]
         y == arcs[Len(arcs)][2]
         rest == SubSeq(arcs, 1, Len(arcs) - 1)
     IN  /\ domains' = Revise(crossword, domains, x, y)
         /\ IF ~Revised(crossword, domains, x, y)
              THEN /\ arcs' = rest
                   /\ UNCHANGED <<pc, ac3_result>>
            ELSE IF domains'[x] = {}
              THEN /\ arcs' = <<>>
                   /\ ac3_result' = "False"
                   /\ pc' = Ac3ReturnsTo(caller)
            ELSE /\ \E added \in Orders(x_neighbours(crossword, x, y)) :
                      arcs' = rest \o [ k \in DOMAIN added |-> <<added[k], x>> ]
                 /\ UNCHANGED <<pc, ac3_result>>
  /\ UNCHANGED <<crossword, returned, assignment, stack, result, solve_result, caller,
                 calls, before>>

\* The worklist is empty: ac3 returns True.
ac3_return ==
  /\ pc = "ac3_while"
  /\ arcs = <<>>
  /\ ac3_result' = "True"
  /\ pc' = Ac3ReturnsTo(caller)
  /\ UNCHANGED <<crossword, returned, domains, arcs, assignment, stack, result,
                 solve_result, caller, calls, before>>

\* ---------------------------------------------------- assignment evaluator

\* A completeness check that looks at the keys of the assignment only.
assignment_complete_keys(D, a) ==
  /\ \A variable \in DOMAIN a : variable \in DOMAIN D
  /\ \A variable \in DOMAIN a : a[variable] # <<>>

\* A completeness check with its truth test the wrong way round.
assignment_complete_inverted(D, a) ==
  /\ \A variable \in DOMAIN D : variable \in DOMAIN a
  /\ \A variable \in DOMAIN a : a[variable] = <<>>

\* assignment_complete(assignment): every variable is a key, and no value is
\* falsy (the empty word).
assignment_complete(D, a) ==
  /\ \A variable \in DOMAIN D : variable \in DOMAIN a
  /\ \A variable \in DOMAIN a : a[variable] # <<>>

\* A consistency check without the comparison of the neighbours' letters.
consistent_no_neighbours(cw, a) ==
  /\ Cardinality({ a[v] : v \in DOMAIN a }) = Cardinality(DOMAIN a)
  /\ \A variable \in DOMAIN a : variable.length = Len(a[variable])

\* A consistency check without the test that the values are distinct.
consistent_no_distinct(cw, a) ==
  /\ \A variable \in DOMAIN a : variable.length = Len(a[variable])
  /\ \A variable \in DOMAIN a :
       \A neighbour \in Neighbors(cw, variable) :
         neighbour \in DOMAIN a =>
           a[variable][cw.overlaps[<<variable, neighbour>>][1] + 1]
             = a[neighbour][cw.overlaps[<<variable, neighbour>>][2] + 1]

\* consistent(assignment): distinct values, right lengths, and equal letters
\* at the overlap of every two bound neighbours.
consistent(cw, a) ==
  /\ Cardinality({ a[v] : v \in DOMAIN a }) = Cardinality(DOMAIN a)
  /\ \A variable \in DOMAIN a : variable.length = Len(a[variable])
  /\ \A variable \in DOMAIN a :
       \A neighbour \in Neighbors(cw, variable) :
         neighbour \in DOMAIN a =>
           a[variable][cw.overlaps[<<variable, neighbour>>][1] + 1]
             = a[neighbour][cw.overlaps[<<variable, neighbour>>][2] + 1]

\* ------------------------------------------------------- search controller

\* ord() of a letter.
Ord(c) == CASE c = "A" -> 65 [] c = "B" -> 66 [] c = "C" -> 67

\* order_domain_values: the count kept for each value, the number of bound
\* neighbours of var whose domain holds the value.
elimination_count(cw, D, var, a, value) ==
  Cardinality({ neighbor \in Neighbors(cw, var) :
                  neighbor \in DOMAIN a /\ value \in D[neighbor] })

\* order_domain_values raises IndexError: the sort key item[1] of a word
\* shorter than two letters.
order_raises(D, var) == \E value \in D[var] : Len(value) < 2

\* order_domain_values(var, assignment): sorted() over the keys of the count
\* dict with key item[1], the second letter of the word.  The sort is stable
\* over the iteration order of the domain set, so every order of the domain
\* that ascends in the second letter is a possible return value.
order_domain_values(cw, D, var, a) ==
  { f \in Orders(D[var]) :
      \A m, n \in DOMAIN f : m < n => Ord(f[m][2]) <= Ord(f[n][2]) }

\* select_unassigned_variable raises ValueError.
select_raises(D, a) ==
  \/ Cardinality(DOMAIN a) >= Cardinality(DOMAIN D)
  \/ { v \in DOMAIN D : v \notin DOMAIN a } = {}

\* A selection whose degree sort is not reversed: fewest neighbours first.
select_fewest_neighbours(cw, D, a) ==
  LET unassigned == { v \in DOMAIN D : v \notin DOMAIN a }
      min_domain_value_vars ==
        { v \in unassigned :
            \A u \in unassigned : Cardinality(D[v]) <= Cardinality(D[u]) }
  IN  IF Cardinality(unassigned) = 1 THEN unassigned
      ELSE { v \in min_domain_value_vars :
               \A u \in min_domain_value_vars :
                 Cardinality(Neighbors(cw, v)) <= Cardinality(Neighbors(cw, u)) }

\* select_unassigned_variable(assignment): the variables it can return.  The
\* two sorts are stable over the iteration order of self.domains, so any of
\* the variables tied on domain size and degree can come first.
select_unassigned_variable(cw, D, a) ==
  LET unassigned == { v \in DOMAIN D : v \notin DOMAIN a }
      min_domain_value_vars ==
        { v \in unassigned :
            \A u \in unassigned : Cardinality(D[v]) <= Cardinality(D[u]) }
  IN  IF Cardinality(unassigned) = 1 THEN unassigned
      ELSE { v \in min_domain_value_vars :
               \A u \in min_domain_value_vars :
                 Cardinality(Neighbors(cw, v)) >= Cardinality(Neighbors(cw, u)) }

\* A dict with key var set to value, and with key var removed.
Bind(a, var, value) ==
  [ v \in DOMAIN a \cup {var} |-> IF v = var THEN value ELSE a[v] ]

\* A pop that leaves the key in the dict.
UnbindNothing(a, var) == a

Unbind(a, var) == [ v \in DOMAIN a \ {var} |-> a[v] ]

\* Python's truth value of what backtrack returned: None and {} are falsy.
Truthy(res, a) == res = "assignment" /\ DOMAIN a # {}

\* backtrack(assignment), lines 300-308: return a complete assignment, or
\* select a variable and order its values.  A frame of stack holds the
\* locals of one call: var, the values the loop has still to try, and entry,
\* the content the dict had when the call was made.
backtrack_call ==
  /\ pc = "backtrack"
  /\ IF assignment_complete(domains, assignment)
       THEN /\ result' = "assignment"
            /\ pc' = "return"
            /\ UNCHANGED stack
     ELSE IF select_raises(domains, assignment)
       THEN /\ pc' = "ValueError"
            /\ UNCHANGED <<stack, result>>
     ELSE /\ \E var \in select_unassigned_variable(crossword, domains, assignment) :
               IF order_raises(domains, var)
                 THEN /\ pc' = "IndexError"
                      /\ UNCHANGED stack
               ELSE /\ \E values \in order_domain_values(crossword, domains,
                                                          var, assignment) :
                         stack' = Append(stack, [var |-> var, values |-> values,
                                                 entry |-> assignment])
                    /\ pc' = "for"
          /\ UNCHANGED result
  /\ UNCHANGED <<crossword, returned, domains, arcs, ac3_result, assignment, solve_result,
                 caller, calls, before>>

\* The next value of the for loop: assignment[var] = value.
backtrack_bind ==
  /\ pc = "for"
  /\ stack[Len(stack)].values # <<>>
  /\ LET frame == stack[Len(stack)]
     IN  /\ assignment' = Bind(assignment, frame.var, Head(frame.values))
         /\ stack' = [ stack EXCEPT ![Len(stack)].values = Tail(frame.values) ]
  /\ pc' = "check"
  /\ UNCHANGED <<crossword, returned, domains, arcs, ac3_result, result, solve_result,
                 caller, calls, before>>

\* if self.consistent(assignment): recurse, else go on to the pop.
backtrack_check ==
  /\ pc = "check"
  /\ pc' = IF consistent(crossword, assignment) THEN "backtrack" ELSE "pop"
  /\ UNCHANGED <<crossword, returned, domains, arcs, ac3_result, assignment, stack,
                 result, solve_result, caller, calls, before>>

\* A recursive call returned into the loop body, lines 313-315: a truthy
\* result is returned at once, another goes on to the pop.
backtrack_return ==
  /\ pc = "return"
  /\ stack # <<>>
  /\ IF Truthy(result, assignment)
       THEN /\ stack' = SubSeq(stack, 1, Len(stack) - 1)
            /\ pc' = "return"
     ELSE /\ pc' = "pop"
          /\ UNCHANGED stack
  /\ UNCHANGED <<crossword, returned, domains, arcs, ac3_result, assignment, result,
                 solve_result, caller, calls, before>>

\* assignment.pop(var), and back to the head of the loop.
backtrack_pop ==
  /\ pc = "pop"
  /\ assignment' = Unbind(assignment, stack[Len(stack)].var)
  /\ pc' = "for"
  /\ UNCHANGED <<crossword, returned, domains, arcs, ac3_result, stack, result,
                 solve_result, caller, calls, before>>

\* The loop is exhausted: return None.
backtrack_fail ==
  /\ pc = "for"
  /\ stack[Len(stack)].values = <<>>
  /\ stack' = SubSeq(stack, 1, Len(stack) - 1)
  /\ result' = "None"
  /\ pc' = "return"
  /\ UNCHANGED <<crossword, returned, domains, arcs, ac3_result, assignment, solve_result,
                 caller, calls, before>>

\* The outermost backtrack(dict()) returned: solve() returns its result.
solve_return ==
  /\ pc = "return"
  /\ stack = <<>>
  /\ caller = "solve"
  /\ solve_result' = result
  /\ pc' = "done"
  /\ UNCHANGED <<crossword, returned, domains, arcs, ac3_result, assignment, stack, result,
                 caller, calls, before>>

\* ------------------------------------------------------------ direct calls

\* The explicit lists of arcs a caller hands to ac3: one to MaxArcs keys of
\* overlaps.
ArcsArguments(cw) ==
  UNION { [1..n -> DOMAIN cw.overlaps] : n \in 1..MaxArcs }

\* The record of the direct call that begins now.
Begun(call, all, was_consistent) ==
  [ call |-> call, all |-> all, consistent |-> was_consistent,
    node_run |-> before.node_run \/ call = "node" ]

\* The call before this one was ac3() from every arc, and it returned True.
AfterAc3Success ==
  before.call = "ac3" /\ before.all /\ ac3_result = "True"

\* creator.enforce_node_consistency()
call_enforce_node_consistency ==
  /\ pc = "idle"
  /\ calls < MaxCalls
  /\ domains' = NodeConsistent(domains)
  /\ before' = Begun("node", FALSE, before.node_run)
  /\ calls' = calls + 1
  /\ UNCHANGED <<crossword, returned, pc, arcs, ac3_result, assignment, stack, result,
                 solve_result, caller>>

\* creator.revise(x, y), on domains whose words have the slots' lengths.
call_revise ==
  /\ pc = "idle"
  /\ calls < MaxCalls
  /\ before.node_run
  /\ \E p \in DOMAIN crossword.overlaps :
       /\ domains' = Revise(crossword, domains, p[1], p[2])
       /\ returned' = [ call |-> "revise", x |-> p[1], y |-> p[2],
                        value |-> Revised(crossword, domains, p[1], p[2]) ]
  /\ before' = Begun("revise", FALSE, FALSE)
  /\ calls' = calls + 1
  /\ pc' = "revised"
  /\ UNCHANGED <<crossword, arcs, ac3_result, assignment, stack, result,
                 solve_result, caller>>

\* The caller has taken revise's return value.
call_revise_return ==
  /\ pc = "revised"
  /\ returned' = NoCall
  /\ pc' = "idle"
  /\ UNCHANGED <<crossword, domains, arcs, ac3_result, assignment, stack,
                 result, solve_result, caller, calls, before>>

\* The assignments a caller hands to order_domain_values(var, assignment):
\* the empty dict, and every dict that binds one other variable to a word of
\* its domain.
AssignmentArguments(D, var) ==
  {EmptyDict} \cup
    { Bind(EmptyDict, u, w) : <<u, w>> \in
        { q \in (DOMAIN D \ {var}) \X UNION { D[v] : v \in DOMAIN D } :
            q[2] \in D[q[1]] } }

\* creator.order_domain_values(var, assignment), on any domains.
call_order_domain_values ==
  /\ pc = "idle"
  /\ calls < MaxCalls
  /\ \E var \in DOMAIN domains :
       \E a \in AssignmentArguments(domains, var) :
         IF order_raises(domains, var)
           THEN /\ returned' = [ call |-> "order_domain_values", var |-> var,
                                 assignment |-> a, value |-> <<>> ]
                /\ pc' = "IndexError"
         ELSE /\ \E values \in order_domain_values(crossword, domains, var, a) :
                   returned' = [ call |-> "order_domain_values", var |-> var,
                                 assignment |-> a, value |-> values ]
              /\ pc' = "ordered"
  /\ before' = Begun("order_domain_values", FALSE, FALSE)
  /\ calls' = calls + 1
  /\ UNCHANGED <<crossword, domains, arcs, ac3_result, assignment, stack,
                 result, solve_result, caller>>

\* The caller has taken the list order_domain_values returned.
call_order_domain_values_return ==
  /\ pc = "ordered"
  /\ returned' = NoCall
  /\ pc' = "idle"
  /\ UNCHANGED <<crossword, domains, arcs, ac3_result, assignment, stack,
                 result, solve_result, caller, calls, before>>

\* creator.ac3(): the worklist starts as every key of overlaps.
call_ac3 ==
  /\ pc = "idle"
  /\ calls < MaxCalls
  /\ before.node_run
  /\ \E keys \in OverlapKeys(crossword) : arcs' = keys
  /\ before' = Begun("ac3", TRUE, AfterAc3Success)
  /\ calls' = calls + 1
  /\ caller' = "api"
  /\ pc' = "ac3_while"
  /\ UNCHANGED <<crossword, returned, domains, ac3_result, assignment, stack, result,
                 solve_result>>

\* creator.ac3([]): line 150 returns True at once.
call_ac3_empty ==
  /\ pc = "idle"
  /\ calls < MaxCalls
  /\ before.node_run
  /\ ac3_result' = "True"
  /\ before' = Begun("ac3", FALSE, FALSE)
  /\ calls' = calls + 1
  /\ UNCHANGED <<crossword, returned, domains, pc, arcs, assignment, stack, result,
                 solve_result, caller>>

\* creator.ac3(arcs) with a list of arcs of the caller's choice.
call_ac3_arcs ==
  /\ pc = "idle"
  /\ calls < MaxCalls
  /\ before.node_run
  /\ \E arg \in ArcsArguments(crossword) : arcs' = arg
  /\ before' = Begun("ac3", FALSE, FALSE)
  /\ calls' = calls + 1
  /\ caller' = "api"
  /\ pc' = "ac3_while"
  /\ UNCHANGED <<crossword, returned, domains, ac3_result, assignment, stack, result,
                 solve_result>>

\* creator.backtrack(dict()), called as solve() calls it: after ac3().
call_backtrack ==
  /\ pc = "idle"
  /\ calls < MaxCalls
  /\ before.call = "ac3" /\ before.all
  /\ assignment' = EmptyDict
  /\ before' = Begun("backtrack", FALSE, FALSE)
  /\ calls' = calls + 1
  /\ caller' = "api"
  /\ pc' = "backtrack"
  /\ UNCHANGED <<crossword, returned, domains, arcs, ac3_result, stack, result,
                 solve_result>>

\* The outermost backtrack(dict()) returned to its direct caller.
call_backtrack_return ==
  /\ pc = "return"
  /\ stack = <<>>
  /\ caller = "api"
  /\ pc' = "idle"
  /\ UNCHANGED <<crossword, returned, domains, arcs, ac3_result, assignment, stack,
                 result, solve_result, caller, calls, before>>

Next ==
  \/ enforce_node_consistency
  \/ ac3_begin
  \/ ac3_while
  \/ ac3_return
  \/ backtrack_call
  \/ backtrack_bind
  \/ backtrack_check
  \/ backtrack_return
  \/ backtrack_pop
  \/ backtrack_fail
  \/ solve_return

Spec == Init /\ [][Next]_vars

\* solve() is a sequential program: it keeps taking its next step until it
\* has returned.
SpecFair == Spec /\ WF_vars(Next)

NextApi ==
  \/ call_enforce_node_consistency
  \/ call_revise
  \/ call_revise_return
  \/ call_ac3
  \/ call_ac3_empty
  \/ call_ac3_arcs
  \/ call_backtrack
  \/ ac3_while
  \/ ac3_return
  \/ backtrack_call
  \/ backtrack_bind
  \/ backtrack_check
  \/ backtrack_return
  \/ backtrack_pop
  \/ backtrack_fail
  \/ call_backtrack_return

SpecApi == InitApi /\ [][NextApi]_vars

\* Direct calls of order_domain_values, before and after node consistency.
NextValues ==
  \/ call_enforce_node_consistency
  \/ call_order_domain_values
  \/ call_order_domain_values_return

SpecValues == InitValues /\ [][NextValues]_vars

\* One run of ac3 on node-consistent domains, as solve() calls it, from every
\* arc or from an explicit list of arcs.
NextAc3 ==
  \/ call_enforce_node_consistency /\ ~before.node_run
  \/ call_ac3 /\ before.call = "node"
  \/ call_ac3_arcs /\ before.call = "node"
  \/ ac3_while
  \/ ac3_return

\* The program is sequential: once ac3 is called, its loop keeps running
\* until it returns.
SpecAc3 ==
  InitApi /\ [][NextAc3]_vars /\ WF_vars(ac3_while) /\ WF_vars(ac3_return)

\* ------------------------------------------------------------- properties

\* The words of the vocabulary that have the length of slot v.
Candidates(cw, v) == { w \in cw.words : Len(w) = v.length }

\* a gives every variable a word of the vocabulary of its length, no word
\* twice, with equal letters at every overlap.
IsSolution(cw, a) ==
  /\ \A v \in cw.variables : Len(a[v]) = v.length
  /\ \A x, y \in cw.variables : x # y => a[x] # a[y]
  /\ \A p \in DOMAIN cw.overlaps :
       cw.overlaps[p] # None =>
         a[p[1]][cw.overlaps[p][1] + 1] = a[p[2]][cw.overlaps[p][2] + 1]

SolutionExists(cw) ==
  \E a \in [cw.variables -> cw.words] : IsSolution(cw, a)

\* Every word of every domain has a word in each neighbour's domain that
\* agrees with it at the overlap.
ArcConsistent(cw, D) ==
  \A x \in cw.variables :
    \A y \in Neighbors(cw, x) :
      \A w \in D[x] :
        \E u \in D[y] :
          w[cw.overlaps[<<x, y>>][1] + 1] = u[cw.overlaps[<<x, y>>][2] + 1]

\* Some domain lost a word of the right length and kept another.
Pruned(cw, D) ==
  \E v \in cw.variables : D[v] # {} /\ D[v] # Candidates(cw, v)

\* C1: solve() returns None only when no assignment of vocabulary words to
\* all variables is pairwise distinct, length-correct and letter-equal at
\* every overlap; when such an assignment exists, solve() returns one.
C1_Completeness ==
  /\ solve_result = "None" => ~SolutionExists(crossword)
  /\ (pc = "done" /\ SolutionExists(crossword)) => solve_result = "assignment"

\* solve() returned None after arc consistency succeeded with no empty
\* domain: the search itself exhausted every branch.
C1_Witness ==
  /\ solve_result = "None"
  /\ ac3_result = "True"
  /\ crossword.variables # {}
  /\ \A v \in crossword.variables : domains[v] # {}

\* C2: in every assignment solve() returns, the words of two overlapping
\* variables have the same letter at the offsets of their overlap.
C2_OverlapAgreement ==
  solve_result = "assignment" =>
    \A p \in DOMAIN crossword.overlaps :
      crossword.overlaps[p] # None =>
        assignment[p[1]][crossword.overlaps[p][1] + 1]
          = assignment[p[2]][crossword.overlaps[p][2] + 1]

\* solve() returned an assignment for a grid with an overlap, from domains
\* that held more than one word.
C2_Witness ==
  /\ solve_result = "assignment"
  /\ \E p \in DOMAIN crossword.overlaps :
       /\ crossword.overlaps[p] # None
       /\ Cardinality(domains[p[1]]) > 1

\* C3: no assignment solve() returns binds one word to two variables, and
\* when two variables can only take the same single word solve() returns
\* None.
C3_Distinctness ==
  /\ solve_result = "assignment" =>
       \A x, y \in crossword.variables : x # y => assignment[x] # assignment[y]
  /\ ( /\ pc = "done"
       /\ \E x, y \in crossword.variables :
            /\ x # y
            /\ Candidates(crossword, x) = Candidates(crossword, y)
            /\ Cardinality(Candidates(crossword, x)) = 1 )
       => solve_result = "None"

\* Two slots that do not overlap had the same single candidate word, arc
\* consistency left it in both domains, and solve() returned None.
C3_Witness ==
  /\ solve_result = "None"
  /\ ac3_result = "True"
  /\ \E x, y \in crossword.variables :
       /\ x # y
       /\ crossword.overlaps[<<x, y>>] = None
       /\ Cardinality(domains[x]) = 1
       /\ domains[x] = domains[y]
       /\ domains[x] = Candidates(crossword, x)

\* C4: every assignment solve() returns binds every variable, each to a word
\* of the vocabulary of the variable's length.
C4_Totality ==
  solve_result = "assignment" =>
    /\ DOMAIN assignment = crossword.variables
    /\ \A v \in crossword.variables :
         assignment[v] \in crossword.words /\ Len(assignment[v]) = v.length

\* solve() returned an assignment for slots of two different lengths.
C4_Witness ==
  /\ solve_result = "assignment"
  /\ \E x, y \in crossword.variables : x.length # y.length

\* C5: when a domain becomes empty during the arc-consistency run of
\* solve(), ac3 reports failure and solve() returns None without invoking
\* the backtracking search (none of backtrack's statements is reached).
C5_NoSearchAfterFailure ==
  ac3_result = "False" =>
    /\ pc \notin {"for", "check", "pop", "return"}
    /\ stack = <<>>
    /\ solve_result # "assignment"

\* C6: when ac3() started from all arcs returns True, every word left in a
\* domain has a word in each neighbour's domain that agrees with it at the
\* overlap.
C6_ArcConsistencySoundness ==
  (pc = "idle" /\ before.call = "ac3" /\ before.all /\ ac3_result = "True")
    => ArcConsistent(crossword, domains)

\* ac3() from all arcs returned True after removing words: a domain is
\* smaller than its candidates and none is empty.
C6_Witness ==
  /\ pc = "idle" /\ before.call = "ac3" /\ before.all /\ ac3_result = "True"
  /\ Pruned(crossword, domains)
  /\ \A v \in crossword.variables : domains[v] # {}

\* C7: ac3 returns True only if no domain is empty when it returns, and
\* returns False if one or more domains are empty when it returns.
C7_Ac3ReturnValue ==
  ac3_result # "None" =>
    (ac3_result = "True" <=> \A v \in crossword.variables : domains[v] # {})

\* C8: running node consistency again changes no domain; after ac3() from
\* all arcs returned True, running ac3() again changes no domain and returns
\* True.
C8_Idempotence ==
  [][ /\ (calls' # calls /\ before'.call = "node" /\ before.node_run)
         => domains' = domains
      /\ (pc = "ac3_while" /\ before.call = "ac3" /\ before.consistent)
         => /\ domains' = domains
            /\ pc' = "idle" => ac3_result' = "True" ]_vars

\* A second ac3() right after a successful one has returned, on domains
\* the first one had pruned.
C8_Witness ==
  /\ pc = "idle" /\ before.call = "ac3" /\ before.consistent
  /\ Pruned(crossword, domains)

\* C9: every step of node consistency, revise, ac3 and the search leaves
\* each domain a subset of what it was, and the steps of the search
\* (selection and ordering included) leave every domain unchanged.
C9_DomainsOnlyShrink ==
  [][ /\ DOMAIN domains' = DOMAIN domains
      /\ \A v \in DOMAIN domains : domains'[v] \subseteq domains[v]
      /\ pc \in {"backtrack", "for", "check", "pop", "return"}
           => domains' = domains ]_vars

\* The search is under way on domains that consistency enforcement pruned.
C9_Witness ==
  /\ pc = "check"
  /\ Pruned(crossword, domains)

\* C10: after enforce_node_consistency every domain is exactly the set of
\* vocabulary words whose length is the variable's length.
C10_NodeConsistency ==
  pc = "ac3" =>
    \A v \in crossword.variables : domains[v] = Candidates(crossword, v)

\* Node consistency has run on a vocabulary with words of the slot's length
\* and words of another length.
C10_Witness ==
  /\ pc = "ac3"
  /\ \E v \in crossword.variables :
       domains[v] # {} /\ domains[v] # crossword.words

\* C11: strict LIFO undo.  At the head of the loop of a call of backtrack,
\* before each candidate value is tried, the assignment is the one the call
\* was made with, and when the call returns None the assignment is again
\* the one it was made with.
C11_LifoUndo ==
  [][ /\ pc' = "for" => assignment' = stack'[Len(stack')].entry
      /\ (pc = "for" /\ pc' = "return") =>
            /\ result' = "None"
            /\ assignment' = stack[Len(stack)].entry ]_vars

\* A call made with a bound variable has tried all its values, one of them
\* through a deeper call, and is about to return None.
C11_Witness ==
  /\ pc = "for"
  /\ Len(stack) >= 2
  /\ stack[Len(stack)].values = <<>>
  /\ Cardinality(domains[stack[Len(stack)].var]) >= 2
  /\ result = "None"

\* No word is bound to two variables of a.
NoRepeatedWord(a) ==
  \A x, y \in DOMAIN a : x # y => a[x] # a[y]

\* Every two bound variables that overlap have the same letter in the cell
\* they share.
BoundOverlapsAgree(cw, a) ==
  \A x, y \in DOMAIN a :
    (x # y /\ cw.overlaps[<<x, y>>] # None) =>
      a[x][cw.overlaps[<<x, y>>][1] + 1] = a[y][cw.overlaps[<<x, y>>][2] + 1]

\* C12 as stated: in every state of the search, the one after a bind step
\* included, the assignment has no repeated word and agrees at every overlap
\* of two bound variables.
C12_SearchInvariant ==
  pc \in {"backtrack", "for", "check", "pop", "return"} =>
    /\ NoRepeatedWord(assignment)
    /\ BoundOverlapsAgree(crossword, assignment)

\* C12: after each unbind step, and after each bind step that consistent()
\* has accepted, the assignment has no repeated word and agrees at every
\* overlap of two bound variables.
C12_AcceptedBindings ==
  pc \in {"backtrack", "for", "return"} =>
    /\ NoRepeatedWord(assignment)
    /\ BoundOverlapsAgree(crossword, assignment)

\* A recursive call is entered with two overlapping variables bound.
C12_Witness ==
  /\ pc = "backtrack"
  /\ \E x, y \in DOMAIN assignment :
       x # y /\ crossword.overlaps[<<x, y>>] # None

\* C13: the worklist loop of ac3 terminates, whatever list of arcs it was
\* started with, and a turn of the loop appends arcs only when its revision
\* removed at least one word.
C13_Ac3Terminates ==
  /\ [][ (pc = "ac3_while" /\ pc' = "ac3_while" /\ arcs # <<>>
          /\ arcs' # SubSeq(arcs, 1, Len(arcs) - 1)) =>
            \E v \in DOMAIN domains :
              domains'[v] # domains[v] /\ domains'[v] \subseteq domains[v] ]_vars
  /\ (pc = "ac3_while" ~> pc # "ac3_while")

\* ac3 was called with an explicit list of arcs, removed words and returned.
C13_Witness ==
  /\ pc = "idle"
  /\ before.call = "ac3" /\ ~before.all
  /\ ac3_result \in {"True", "False"}
  /\ \E v \in DOMAIN domains : domains[v] # Candidates(crossword, v)

\* Word w of x has a partner for neighbour y: another word in y's domain
\* with the same letter in the shared cell.
HasPartner(cw, D, x, w, y) ==
  \E u \in D[y] \ {w} :
    w[cw.overlaps[<<x, y>>][1] + 1] = u[cw.overlaps[<<x, y>>][2] + 1]

\* One round that drops, from every domain at once, the words without a
\* partner for some neighbour, and the domains no round changes any more.
\* They depend on the starting domains only, not on an order of arcs.
DropUnpartnered(cw, D) ==
  [ x \in DOMAIN D |->
      { w \in D[x] : \A y \in Neighbors(cw, x) : HasPartner(cw, D, x, w, y) } ]

RECURSIVE StableDomains(_, _)
StableDomains(cw, D) ==
  IF DropUnpartnered(cw, D) = D THEN D
  ELSE StableDomains(cw, DropUnpartnered(cw, D))

\* C14: order independence.  Whatever order the arcs are taken in, ac3()
\* from all arcs returns False exactly when the order-free pruning of the
\* node-consistent domains empties a domain, and when it returns True the
\* final domains are the order-free stable domains.
C14_OrderIndependence ==
  (ac3_result # "None" /\ pc # "ac3_while") =>
    LET start == [ v \in crossword.variables |-> Candidates(crossword, v) ]
        stable == StableDomains(crossword, start)
    IN  /\ ac3_result = "False" <=>
              \E v \in crossword.variables : start[v] # {} /\ stable[v] = {}
        /\ ac3_result = "True" => domains = stable

\* ac3() returned True on a grid of three or more slots after removing
\* words, with arcs appended on the way or not.
C14_Witness ==
  /\ pc = "backtrack"
  /\ stack = <<>>
  /\ ac3_result = "True"
  /\ Cardinality(crossword.variables) >= 3
  /\ \E v \in crossword.variables :
       domains[v] # Candidates(crossword, v) /\ domains[v] # {}

\* C15: revise(x, y) on overlapping x and y removes from x's domain exactly
\* the words that have no partner in y's domain, returns True iff it removed
\* a word and leaves every other domain alone; without an overlap it changes
\* nothing and returns False.
C15_Revise ==
  [][ (pc = "idle" /\ pc' = "revised") =>
        LET x == returned'.x
            y == returned'.y
            unpartnered ==
              IF crossword.overlaps[<<x, y>>] = None THEN {}
              ELSE { w \in domains[x] : ~HasPartner(crossword, domains, x, w, y) }
        IN  /\ domains'[x] = domains[x] \ unpartnered
            /\ \A v \in DOMAIN domains : v # x => domains'[v] = domains[v]
            /\ returned'.value = (unpartnered # {}) ]_vars

\* revise(x, y) has returned True and left a word in x's domain, although a
\* word it removed is in y's domain too.
C15_Witness ==
  /\ pc = "revised"
  /\ returned.value
  /\ domains[returned.x] # {}
  /\ \E w \in domains[returned.y] :
       w \in Candidates(crossword, returned.x) /\ w \notin domains[returned.x]

\* C16: in a run of solve(), select_unassigned_variable is never called
\* when no unassigned variable remains, so it never raises its ValueError.
C16_NoSelectionError ==
  /\ pc # "ValueError"
  /\ (pc = "for" \/ pc = "check" \/ pc = "pop") =>
       \A k \in DOMAIN stack :
         { v \in DOMAIN domains : v \notin DOMAIN stack[k].entry } # {}

\* backtrack was called with every variable bound and returned the
\* assignment without selecting a variable.
C16_Witness ==
  /\ pc = "return"
  /\ result = "assignment"
  /\ stack # <<>>
  /\ DOMAIN assignment = DOMAIN domains
  /\ Cardinality(DOMAIN domains) >= 2

\* Variable v is unassigned in a and is a best choice: no unassigned
\* variable has a smaller domain, and none with a domain of the same size
\* has more neighbours.
BestChoice(cw, D, a, v) ==
  /\ v \in DOMAIN D
  /\ v \notin DOMAIN a
  /\ \A u \in DOMAIN D \ DOMAIN a :
       /\ Cardinality(D[v]) <= Cardinality(D[u])
       /\ Cardinality(D[u]) = Cardinality(D[v]) =>
            Cardinality(Neighbors(cw, u)) <= Cardinality(Neighbors(cw, v))

\* C17: minimum remaining values, then degree.  The variable every call of
\* backtrack selected is unassigned in the assignment of the call, has a
\* smallest domain among the unassigned variables and has the most
\* neighbours among those of that domain size.
C17_MrvDegree ==
  \A k \in DOMAIN stack :
    BestChoice(crossword, domains, stack[k].entry, stack[k].var)

\* The stack holds a selection that the domain sizes decided (a larger
\* domain was passed over) and one that the number of neighbours decided.
C17_Witness ==
  /\ \E k \in DOMAIN stack :
       \E u \in DOMAIN domains \ DOMAIN stack[k].entry :
         Cardinality(domains[u]) > Cardinality(domains[stack[k].var])
  /\ \E k \in DOMAIN stack :
       \E u \in DOMAIN domains \ DOMAIN stack[k].entry :
         /\ Cardinality(domains[u]) = Cardinality(domains[stack[k].var])
         /\ Cardinality(Neighbors(crossword, u)) <
              Cardinality(Neighbors(crossword, stack[k].var))

\* C18: least-constraining value.  The values every call of backtrack got
\* from order_domain_values ascend in the number of already-assigned
\* neighbours of the variable whose domain holds the value.
C18_LeastConstrainingValue ==
  \A k \in DOMAIN stack :
    LET values == stack[k].values
    IN  \A m, n \in DOMAIN values :
          m < n =>
            elimination_count(crossword, domains, stack[k].var,
                              stack[k].entry, values[m])
              <= elimination_count(crossword, domains, stack[k].var,
                                   stack[k].entry, values[n])

\* C19: total enumeration.  Every call of order_domain_values, whatever the
\* domain holds, one-letter words included, returns a list that holds each
\* word of the variable's domain exactly once and nothing else.
C19_TotalEnumeration ==
  returned.call = "order_domain_values" =>
    /\ pc = "ordered"
    /\ Len(returned.value) = Cardinality(domains[returned.var])
    /\ { returned.value[k] : k \in DOMAIN returned.value }
         = domains[returned.var]

\* The search is under way: the outermost backtrack has not returned.
Searching ==
  pc \in {"backtrack", "for", "check", "pop"} \/ (pc = "return" /\ stack # <<>>)

\* The recursion depth of backtrack: the calls in progress below the
\* outermost one.  At pc = "backtrack" a call is being entered and stack
\* holds the frames of its callers.
RecursionDepth == (IF pc = "backtrack" THEN Len(stack) + 1 ELSE Len(stack)) - 1

BoundVariables == Cardinality(DOMAIN assignment)

\* C20 as stated: at every point of the search the recursion depth equals
\* the number of bound variables and does not exceed the number of variables.
C20_DepthEqualsBound ==
  Searching =>
    /\ RecursionDepth = BoundVariables
    /\ RecursionDepth <= Cardinality(crossword.variables)

\* C20: solve() eventually returns a complete assignment or None.  At every
\* entry of a call and at every loop head the recursion depth equals the
\* number of bound variables; between a bind and its undo or its recursive
\* call one more variable is bound; while a complete assignment is handed
\* up, every variable stays bound.  Neither number exceeds the number of
\* variables.
C20_SearchTerminates ==
  /\ <>( /\ pc = "done"
          /\ solve_result \in {"None", "assignment"}
          /\ solve_result = "assignment" =>
               DOMAIN assignment = crossword.variables )
  /\ [](Searching =>
          /\ RecursionDepth <= BoundVariables
          /\ BoundVariables <= Cardinality(crossword.variables)
          /\ pc \in {"backtrack", "for"} => BoundVariables = RecursionDepth
          /\ pc \in {"check", "pop"} => BoundVariables = RecursionDepth + 1
          /\ pc = "return" =>
               IF result = "assignment"
                 THEN BoundVariables = Cardinality(crossword.variables)
               ELSE BoundVariables = RecursionDepth + 1)

\* solve() has returned an assignment of a grid of three or more slots.
C20_Witness ==
  /\ pc = "done"
  /\ solve_result = "assignment"
  /\ Cardinality(crossword.variables) >= 3

====
